---- MODULE Spec2Model ----
(***************************************************************************)
(* Model of the transactional session lifecycle of the service:           *)
(*   - SQLModelAdapter  (infrastructure/adapters/sql_model_adapter.py)     *)
(*   - UoW              (infrastructure/uow.py)                            *)
(*   - lifespan_context (bootstrap.py), get_uow (api/routers/helpers.py)   *)
(* Coroutines are split at their await points; the database's answers     *)
(* (liveness check, commit, rollback, close) are nondeterministic inputs.  *)
(***************************************************************************)
EXTENDS Naturals, Sequences, FiniteSets

(* ---- bounds of the model ---- *)
MaxPools == 2        \* engines constructed by create_async_engine
MaxCalls == 3        \* direct calls of each adapter method (SpecAdapter)
MaxBoot == 2         \* Bootstrap()() calls (SpecApp)

\* The UoW instances, numbered in the order uow_partial() constructs them.  Two
\* instances show every interaction between concurrent units of work: an
\* instance shares nothing with another but the adapter.
UoWIds == {1, 2}

VARIABLES
    engine,      \* SQLModelAdapter.__engine: 0 is None, n >= 1 the n-th engine
    nPools,      \* engines constructed so far (create_async_engine calls)
    okPools,     \* engines whose "SELECT 1" liveness check succeeded
    gonePools,   \* engines that were disposed
    lastCreate,  \* what the latest create_engine() call did
    sinceDispose,\* create_engine() calls and engines built since the last dispose
    lastDispose, \* what the latest dispose_engine() call found and raised
    lifespan,    \* position of lifespan_context
    uows,        \* the UoW instances
    sessions,    \* the AsyncSession objects constructed, in order of construction
    Bootstrap_bootstrapped, \* the class attribute Bootstrap._bootstrapped
    nAdapters,   \* SQLModelAdapter objects constructed so far
    lastBoot,    \* Bootstrap()() calls made and what the latest returned
    made,        \* made[i]: the adapter the i-th UoW constructed by uow_partial holds
    requests     \* the get_uow() generators, one per request

vars == <<engine, nPools, okPools, gonePools, lastCreate, sinceDispose, lastDispose,
          lifespan, uows, sessions, Bootstrap_bootstrapped, nAdapters, lastBoot,
          made, requests>>

adapterVars == <<engine, nPools, okPools, gonePools, lastCreate, sinceDispose,
                 lastDispose>>
lifespanVars == <<lifespan>>
uowVars == <<uows, sessions>>
bootVars == <<Bootstrap_bootstrapped, nAdapters, lastBoot>>
appVars == <<Bootstrap_bootstrapped, nAdapters, lastBoot, made, requests>>

(* ---- exceptions ---- *)
\* The exception classes that occur.  "none" stands for "no exception".
BodyErrors == {"ValueError", "CancelledError"}
Outcomes == {"ok", "fail", "cancel"}

\* isinstance(e, Exception): asyncio.CancelledError derives from BaseException.
IsException(e) == e \notin {"none", "CancelledError"}

\* str(e.__class__), as its tokens: "<class 'module.path.Name'>".
ClassStr(e) ==
    CASE e = "CancelledError" ->
            <<"<class '", "asyncio", ".", "exceptions", ".", "CancelledError", "'>">>
      [] e = "ValueError"   -> <<"<class '", "ValueError", "'>">>
      [] e = "RuntimeError" -> <<"<class '", "RuntimeError", "'>">>
      [] e = "ConnectionError" -> <<"<class '", "ConnectionError", "'>">>
      [] OTHER -> <<"<class '", "sqlalchemy", ".", "exc", ".", e, "'>">>

\* needle in haystack, on token sequences (Python's substring test).
Contains(needle, hay) ==
    \E i \in 0..(Len(hay) - Len(needle)) :
        \A j \in 1..Len(needle) : hay[i + j] = needle[j]

\* uow.py line 43: "asyncio.CancelledError" in str(e.__class__)
CancelledByName(e) == Contains(<<"asyncio", ".", "CancelledError">>, ClassStr(e))

\* The exception a call raises for a database answer.
Raises(op, r) ==
    CASE r = "ok"     -> "none"
      [] r = "cancel" -> "CancelledError"
      [] r = "fail"   -> CASE op = "commit"   -> "CommitError"
                           [] op = "rollback" -> "RollbackError"
                           [] op = "close"    -> "CloseError"

(* ---- SQLModelAdapter ---- *)
\* The database's answers to the connection check of create_engine(); "cancel"
\* is a cancellation delivered while the check is awaited.
DbAnswers == {"up", "down", "cancel"}

\* lines 41-43: what the connection check raises.
CheckRaises(db) ==
    CASE db = "up"     -> "none"
      [] db = "down"   -> "ConnectionError"
      [] db = "cancel" -> "CancelledError"

NoCreate == [before |-> 0, after |-> 0, constructed |-> FALSE, checked |-> FALSE,
             raised |-> "none"]

\* create_engine() without the test of the handle: it builds an engine at
\* every call.
create_engine_unguarded(db) ==
    /\ engine' = nPools + 1
    /\ nPools' = nPools + 1
    /\ okPools' = IF db = "up" THEN okPools \cup {nPools + 1} ELSE okPools
    /\ lastCreate' = [before |-> engine, after |-> nPools + 1, constructed |-> TRUE,
                      checked |-> TRUE,
                      raised |-> CheckRaises(db)]
    /\ sinceDispose' = [creates |-> sinceDispose.creates + 1,
                        built |-> sinceDispose.built + 1]
    /\ UNCHANGED <<gonePools, lastDispose>>

\* create_engine() keeping the engine it builds in a local variable: the
\* handle is never assigned.
create_engine_local(db) ==
    /\ nPools' = nPools + 1
    /\ okPools' = IF db = "up" THEN okPools \cup {nPools + 1} ELSE okPools
    /\ lastCreate' = [before |-> engine, after |-> engine, constructed |-> TRUE,
                      checked |-> TRUE, raised |-> CheckRaises(db)]
    /\ sinceDispose' = [creates |-> sinceDispose.creates + 1,
                        built |-> sinceDispose.built + 1]
    /\ UNCHANGED <<engine, gonePools, lastDispose>>

\* create_engine(): db is the database's answer to the connection check.  The
\* handle is assigned before the check, and nothing clears it when the check
\* raises.
create_engine(db) ==
    /\ IF engine = 0
       THEN /\ engine' = nPools + 1
            /\ nPools' = nPools + 1
            /\ okPools' = IF db = "up" THEN okPools \cup {nPools + 1} ELSE okPools
            /\ lastCreate' = [before |-> 0, after |-> nPools + 1,
                              constructed |-> TRUE, checked |-> TRUE,
                              raised |-> CheckRaises(db)]
            /\ sinceDispose' = [creates |-> sinceDispose.creates + 1,
                                built |-> sinceDispose.built + 1]
       ELSE /\ lastCreate' = [before |-> engine, after |-> engine,
                              constructed |-> FALSE, checked |-> FALSE,
                              raised |-> "none"]
            /\ sinceDispose' = [sinceDispose EXCEPT !.creates = @ + 1]
            /\ UNCHANGED <<engine, nPools, okPools>>
    /\ UNCHANGED <<gonePools, lastDispose>>

NoDispose == [calls |-> 0, before |-> 0, raised |-> "none"]

\* dispose_engine() without the test of the handle: None has no dispose().
dispose_engine_unguarded ==
    /\ IF engine # 0
       THEN /\ gonePools' = gonePools \cup {engine}
            /\ engine' = 0
       ELSE UNCHANGED <<engine, gonePools>>
    /\ sinceDispose' = IF engine # 0 THEN [creates |-> 0, built |-> 0] ELSE sinceDispose
    /\ lastDispose' = [calls |-> lastDispose.calls + 1, before |-> engine,
                       raised |-> IF engine # 0 THEN "none" ELSE "AttributeError"]
    /\ UNCHANGED <<nPools, okPools, lastCreate>>

\* dispose_engine() without the assignment of None to the handle.
dispose_engine_keeps_handle ==
    /\ gonePools' = IF engine # 0 THEN gonePools \cup {engine} ELSE gonePools
    /\ sinceDispose' = [creates |-> 0, built |-> 0]
    /\ lastDispose' = [calls |-> lastDispose.calls + 1, before |-> engine,
                       raised |-> "none"]
    /\ UNCHANGED <<engine, nPools, okPools, lastCreate>>

\* dispose_engine()
dispose_engine ==
    /\ IF engine # 0
       THEN /\ gonePools' = gonePools \cup {engine}
            /\ engine' = 0
       ELSE UNCHANGED <<engine, gonePools>>
    /\ sinceDispose' = [creates |-> 0, built |-> 0]
    /\ lastDispose' = [calls |-> lastDispose.calls + 1, before |-> engine,
                       raised |-> "none"]
    /\ UNCHANGED <<nPools, okPools, lastCreate>>

\* get_session() handing out one AsyncSession kept by the adapter instead of
\* constructing one per call.
get_session_shared ==
    IF engine = 0
    THEN [raised |-> "RuntimeError", new |-> <<>>]
    ELSE [raised |-> "none",
          new |-> IF sessions = <<>> THEN <<[pool |-> engine, calls |-> <<>>]>> ELSE <<>>]

\* get_session() without the test of the handle.
get_session_unchecked ==
    [raised |-> "none", new |-> <<[pool |-> engine, calls |-> <<>>]>>]

\* get_session(): the exception raised and the AsyncSession constructed.
get_session ==
    IF engine = 0
    THEN [raised |-> "RuntimeError", new |-> <<>>]
    ELSE [raised |-> "none", new |-> <<[pool |-> engine, calls |-> <<>>]>>]

\* The adapter's methods called directly, in any order, by a holder of
\* Bootstrapped.sql_model_adapter.
CallCreate(db) ==
    /\ sinceDispose.creates < MaxCalls
    /\ engine # 0 \/ nPools < MaxPools
    /\ create_engine(db)
    /\ UNCHANGED <<lifespanVars, uowVars>>

CallDispose ==
    /\ lastDispose.calls < MaxCalls
    /\ dispose_engine
    /\ UNCHANGED <<lifespanVars, uowVars>>

CallGetSession ==
    /\ Len(sessions) < MaxCalls
    /\ sessions' = sessions \o get_session.new
    /\ UNCHANGED <<adapterVars, lifespanVars, uows>>

(* ---- lifespan_context ---- *)
LifespanEnter ==
    /\ lifespan \in {"idle", "stopped"}
    /\ nPools < MaxPools
    /\ lifespan' = "startup"
    /\ UNCHANGED <<adapterVars, uowVars>>

\* lines 111-122: where the lifespan is once create_engine() raised e ("none":
\* returned).  "except Exception" lets a cancellation leave the generator.
StartupNext(e) ==
    IF e = "none" THEN "serving"
    ELSE IF IsException(e) THEN "startup"
    ELSE "aborted"

\* One iteration of "while not connected".
StartupAttempt(db) ==
    /\ lifespan = "startup"
    /\ engine # 0 \/ nPools < MaxPools
    /\ create_engine(db)
    /\ lifespan' = StartupNext(lastCreate'.raised)
    /\ UNCHANGED uowVars

\* The code after the yield.
Shutdown ==
    /\ lifespan = "serving"
    /\ dispose_engine
    /\ lifespan' = "stopped"
    /\ UNCHANGED uowVars

(* ---- UoW ---- *)
\* sess = 0: the attribute __sql_model_session was never assigned (__init__
\* does not create it).
NewUoW == [pc |-> "new", sess |-> 0, excIn |-> "none", commitErr |-> "none",
           pending |-> "none", raised |-> "none"]

\* line 22: what reading self.__sql_model_session raises.
SessionTest(sess) == IF sess = 0 THEN "AttributeError" ELSE "none"

\* The dispatch without the error branch: commit whatever the body did.
ExitDispatchAlwaysCommit(exc) == "commit"

\* The dispatch with the test inverted.
ExitDispatchInverted(exc) == IF exc = "none" THEN "rollback" ELSE "commit"

\* __aexit__ lines 24-31: the first call on the session.
ExitDispatch(exc) == IF exc # "none" THEN "rollback" ELSE "commit"

\* The rollback of the handler run after every commit (no "except").
CommitNextAlwaysRollback(e) == IF e = "CancelledError" THEN "close" ELSE "rollback_after_commit"

\* lines 30-33: where control goes once commit() raised e ("none": returned).
CommitNext(e) == IF IsException(e) THEN "rollback_after_commit" ELSE "close"

\* The inner handler without its "raise e".
InnerExceptNoRaise(c, e) == e

\* lines 33-39: what leaves the inner handler; c is the commit error, e what
\* rollback() raised.
InnerExcept(c, e) == IF e # "none" THEN e ELSE c

\* The outer handler as its log message reads: a cancellation is logged and
\* not raised again.
OuterExceptSwallowsCancel(e) == IF e = "CancelledError" THEN "none" ELSE e

\* lines 40-49: what leaves the outer try statement when e was raised in it.
OuterExcept(e) ==
    IF ~IsException(e) THEN e
    ELSE IF CancelledByName(e) THEN "none"
    ELSE e

\* close() after the try statement instead of in a finally clause.
AfterTryNoFinally(p) == IF p = "none" THEN "close" ELSE "done"

\* line 50: the finally clause runs whatever p leaves the try statement.
AfterTry(p) == "close"

\* The finally clause without its "except Exception".
CloseRaisedReraise(p, e) == IF e # "none" THEN e ELSE p

\* lines 50-56: what __aexit__ raises; p is what was propagating when the
\* finally clause started, e what close() raised.
CloseRaised(p, e) == IF e # "none" /\ ~IsException(e) THEN e ELSE p

\* "async with uow": what the caller of the block observes, given the body's
\* exception and what __aexit__ raised (it returns None otherwise).
Observed(exc, raisedByExit) ==
    IF raisedByExit # "none" THEN raisedByExit
    ELSE IF exc # "none" THEN exc
    ELSE "ok"

Call(s, op, r) ==
    [sessions EXCEPT ![s].calls = Append(@, [op |-> op, res |-> r])]

\* __aenter__
AEnter(u) ==
    /\ uows[u].pc = "new"
    /\ \A v \in UoWIds : v < u => uows[v].pc # "new"
    /\ LET g == get_session IN
         IF g.raised # "none"
         THEN /\ uows' = [uows EXCEPT ![u].pc = "enter_failed", ![u].raised = g.raised]
              /\ UNCHANGED sessions
         ELSE /\ sessions' = sessions \o g.new
              /\ uows' = [uows EXCEPT ![u].pc = "active", ![u].sess = Len(sessions \o g.new)]
    /\ UNCHANGED <<adapterVars, lifespanVars>>

\* The block's body ends with exc and __aexit__ starts (lines 21-31).
AExit(u, exc) ==
    /\ uows[u].pc = "active"
    /\ SessionTest(uows[u].sess) = "none"
    /\ uows' = [uows EXCEPT ![u].excIn = exc, ![u].pc = ExitDispatch(exc)]
    /\ UNCHANGED <<sessions, adapterVars, lifespanVars>>

\* __aexit__ called on an instance that holds no session: never entered, or
\* __aenter__ raised (line 22).  The instance is followed no further once this
\* call has ended (pc "exited_bare"); raised is what the call raised.
AExitNoSession(u) ==
    /\ uows[u].pc \in {"new", "enter_failed"}
    /\ uows' = [uows EXCEPT ![u].pc = "exited_bare",
                            ![u].raised = SessionTest(uows[u].sess)]
    /\ UNCHANGED <<sessions, adapterVars, lifespanVars>>

\* line 28: await rollback() on the error path.
Rollback(u, r) ==
    /\ uows[u].pc = "rollback"
    /\ sessions' = Call(uows[u].sess, "rollback", r)
    /\ LET p == OuterExcept(Raises("rollback", r)) IN
         uows' = [uows EXCEPT ![u].pending = p, ![u].pc = AfterTry(p)]
    /\ UNCHANGED <<adapterVars, lifespanVars>>

\* line 31: await commit().
Commit(u, r) ==
    /\ uows[u].pc = "commit"
    /\ sessions' = Call(uows[u].sess, "commit", r)
    /\ LET e == Raises("commit", r) IN
         IF CommitNext(e) = "close"
         THEN uows' = [uows EXCEPT ![u].pending = OuterExcept(e),
                                   ![u].pc = AfterTry(OuterExcept(e))]
         ELSE uows' = [uows EXCEPT ![u].commitErr = e, ![u].pc = CommitNext(e)]
    /\ UNCHANGED <<adapterVars, lifespanVars>>

\* line 35: await rollback() in the handler of the commit error.
RollbackAfterCommit(u, r) ==
    /\ uows[u].pc = "rollback_after_commit"
    /\ sessions' = Call(uows[u].sess, "rollback", r)
    /\ LET p == OuterExcept(InnerExcept(uows[u].commitErr, Raises("rollback", r))) IN
         uows' = [uows EXCEPT ![u].pending = p, ![u].pc = AfterTry(p)]
    /\ UNCHANGED <<adapterVars, lifespanVars>>

\* lines 50-56: await close() in the finally clause; __aexit__ ends.
Close(u, r) ==
    /\ uows[u].pc = "close"
    /\ sessions' = Call(uows[u].sess, "close", r)
    /\ uows' = [uows EXCEPT
                  ![u].raised = CloseRaised(uows[u].pending, Raises("close", r)),
                  ![u].pc = "done"]
    /\ UNCHANGED <<adapterVars, lifespanVars>>

(* ---- the system ---- *)
(* ---- Bootstrap and the per-request dependency get_uow ---- *)
RequestIds == {1, 2}

\* Bootstrap._bootstrapped = None.  A Bootstrapped is given by the adapter in
\* its field sql_model_adapter and the adapter its uow_partial closes over.
None == [sql_model_adapter |-> 0, uow_partial |-> 0]
NoBoot == [calls |-> 0, returned |-> None, constructed |-> FALSE]

\* Bootstrap.__call__ without the test of the class attribute.
Bootstrap_call_unguarded ==
    [returned |-> [sql_model_adapter |-> nAdapters + 1, uow_partial |-> nAdapters + 1],
     adapters |-> nAdapters + 1]

\* Bootstrap.__call__: what it returns (and stores) and the adapters that
\* exist afterwards.
Bootstrap_call ==
    IF Bootstrap_bootstrapped # None
    THEN [returned |-> Bootstrap_bootstrapped, adapters |-> nAdapters]
    ELSE [returned |-> [sql_model_adapter |-> nAdapters + 1,
                        uow_partial |-> nAdapters + 1],
          adapters |-> nAdapters + 1]

\* Bootstrap.bootstrapped(): the exception raised and the value returned.
bootstrapped ==
    IF Bootstrap_bootstrapped = None
    THEN [raised |-> "RuntimeError", value |-> None]
    ELSE [raised |-> "none", value |-> Bootstrap_bootstrapped]

\* uow_partial() returning one shared instance.
uow_partial_shared(b) == [id |-> 1, sql_model_adapter |-> b.uow_partial]

\* uow_partial() of the Bootstrapped b: a newly constructed UoW, the next
\* object after those made so far, holding the adapter of the closure.
uow_partial(b) == [id |-> Len(made) + 1, sql_model_adapter |-> b.uow_partial]

\* uow: the instance the generator holds (0: none); enters, exits: the
\* __aenter__ and __aexit__ calls its async with made; handler: how the
\* request handler ended; raised: what left the generator before the yield.
NewRequest == [pc |-> "idle", uow |-> 0, enters |-> 0, exits |-> 0,
               handler |-> "none", raised |-> "none"]

\* Bootstrap()()
CallBootstrap ==
    /\ lastBoot.calls < MaxBoot
    /\ LET b == Bootstrap_call IN
         /\ Bootstrap_bootstrapped' = b.returned
         /\ nAdapters' = b.adapters
         /\ lastBoot' = [calls |-> lastBoot.calls + 1, returned |-> b.returned,
                         constructed |-> b.adapters # nAdapters]
    /\ UNCHANGED <<made, requests, adapterVars, lifespanVars, uowVars>>

\* The server runs the lifespan of the FastAPI application Bootstrap built.
AppLifespanEnter ==
    /\ Bootstrap_bootstrapped # None
    /\ LifespanEnter
    /\ UNCHANGED appVars

\* get_uow line 6: Bootstrap.bootstrapped().uow_partial()
ReqStart(r) ==
    /\ requests[r].pc = "idle"
    /\ \A q \in RequestIds : q < r => requests[q].pc # "idle"
    /\ LET b == bootstrapped IN
         IF b.raised # "none"
         THEN /\ requests' = [requests EXCEPT ![r].pc = "ended", ![r].raised = b.raised]
              /\ UNCHANGED made
         ELSE LET n == uow_partial(b.value) IN
              /\ made' = IF n.id = Len(made) + 1
                         THEN Append(made, n.sql_model_adapter) ELSE made
              /\ requests' = [requests EXCEPT ![r].pc = "made", ![r].uow = n.id]
    /\ UNCHANGED <<bootVars, adapterVars, lifespanVars, uowVars>>

\* get_uow line 7: async with uow enters.
ReqEnter(r) ==
    /\ requests[r].pc = "made"
    /\ AEnter(requests[r].uow)
    /\ requests' = [requests EXCEPT
           ![r].enters = @ + 1,
           ![r].pc = IF uows'[requests[r].uow].pc = "active" THEN "yielded" ELSE "ended",
           ![r].raised = uows'[requests[r].uow].raised]
    /\ UNCHANGED <<bootVars, made>>

\* get_uow line 8: the handler ends with exc, which is thrown in at the yield
\* (exc = "none": the generator is resumed), and async with exits.
ReqExit(r, exc) ==
    /\ requests[r].pc = "yielded"
    /\ AExit(requests[r].uow, exc)
    /\ requests' = [requests EXCEPT ![r].exits = @ + 1, ![r].handler = exc,
                                    ![r].pc = "exiting"]
    /\ UNCHANGED <<bootVars, made>>

Init ==
    /\ engine = 0
    /\ nPools = 0
    /\ okPools = {}
    /\ gonePools = {}
    /\ lastCreate = NoCreate
    /\ sinceDispose = [creates |-> 0, built |-> 0]
    /\ lastDispose = NoDispose
    /\ lifespan = "idle"
    /\ uows = [u \in UoWIds |-> NewUoW]
    /\ sessions = <<>>
    /\ Bootstrap_bootstrapped = None
    /\ nAdapters = 0
    /\ lastBoot = NoBoot
    /\ made = <<>>
    /\ requests = [r \in RequestIds |-> NewRequest]

\* The adapter, the lifespan and UoW instances used by any caller.
Next ==
    \/ LifespanEnter /\ UNCHANGED appVars
    \/ \E db \in DbAnswers : StartupAttempt(db) /\ UNCHANGED appVars
    \/ Shutdown /\ UNCHANGED appVars
    \/ \E u \in UoWIds : AEnter(u) /\ UNCHANGED appVars
    \/ \E u \in UoWIds : AExitNoSession(u) /\ UNCHANGED appVars
    \/ \E u \in UoWIds : \E exc \in {"none"} \cup BodyErrors :
          AExit(u, exc) /\ UNCHANGED appVars
    \/ \E u \in UoWIds : \E r \in Outcomes : Rollback(u, r) /\ UNCHANGED appVars
    \/ \E u \in UoWIds : \E r \in Outcomes : Commit(u, r) /\ UNCHANGED appVars
    \/ \E u \in UoWIds : \E r \in Outcomes :
          RollbackAfterCommit(u, r) /\ UNCHANGED appVars
    \/ \E u \in UoWIds : \E r \in Outcomes : Close(u, r) /\ UNCHANGED appVars

Spec == Init /\ [][Next]_vars

\* The startup loop runs on: an iteration that can be taken is taken.
SpecLive ==
    Spec /\ WF_vars(\E db \in DbAnswers : StartupAttempt(db) /\ UNCHANGED appVars)

\* The adapter alone, its methods called in any order.
NextAdapter ==
    \/ \E db \in DbAnswers : CallCreate(db) /\ UNCHANGED appVars
    \/ CallDispose /\ UNCHANGED appVars
    \/ CallGetSession /\ UNCHANGED appVars

SpecAdapter == Init /\ [][NextAdapter]_vars

\* The application: Bootstrap, the lifespan of its FastAPI application, and
\* requests that take their UoW from get_uow.
NextApp ==
    \/ CallBootstrap
    \/ AppLifespanEnter
    \/ \E db \in DbAnswers : StartupAttempt(db) /\ UNCHANGED appVars
    \/ Shutdown /\ UNCHANGED appVars
    \/ \E r \in RequestIds : ReqStart(r)
    \/ \E r \in RequestIds : ReqEnter(r)
    \/ \E r \in RequestIds : \E exc \in {"none"} \cup BodyErrors : ReqExit(r, exc)
    \/ \E u \in UoWIds : \E r \in Outcomes : Rollback(u, r) /\ UNCHANGED appVars
    \/ \E u \in UoWIds : \E r \in Outcomes : Commit(u, r) /\ UNCHANGED appVars
    \/ \E u \in UoWIds : \E r \in Outcomes :
          RollbackAfterCommit(u, r) /\ UNCHANGED appVars
    \/ \E u \in UoWIds : \E r \in Outcomes : Close(u, r) /\ UNCHANGED appVars

SpecApp == Init /\ [][NextApp]_vars

(* ---- what the claims speak of ---- *)
Entered(u) == uows[u].sess # 0
Done(u) == uows[u].pc = "done"
Calls(u) == sessions[uows[u].sess].calls
Result(u) == Observed(uows[u].excIn, uows[u].raised)

\* Calls of op on u's session, and those that returned.
NCalls(u, op) == Cardinality({i \in DOMAIN Calls(u) : Calls(u)[i].op = op})
NDone(u, op) ==
    Cardinality({i \in DOMAIN Calls(u) : Calls(u)[i].op = op /\ Calls(u)[i].res = "ok"})
Finalizing(u) == {i \in DOMAIN Calls(u) : Calls(u)[i].op \in {"commit", "rollback"}}
LastFinalizing(u) == CHOOSE i \in Finalizing(u) : \A j \in Finalizing(u) : j <= i

\* C1 as stated: for every unit of work that was entered and exited, exactly
\* one of commit and rollback occurs on its session (read either as "was
\* called" or as "took effect").
Claim_C1_ExactlyOne ==
    \A u \in UoWIds : Done(u) =>
        \/ NCalls(u, "commit") + NCalls(u, "rollback") = 1
        \/ NDone(u, "commit") + NDone(u, "rollback") = 1

\* C1 amended: commit and rollback never both take effect on a session; once the
\* unit of work is exited at least one of them was called, and exactly one took
\* effect unless the last of these calls itself failed or was cancelled, in which
\* case none did; rollback is called after a commit only when that commit failed.
Thm_C1_OneDecision ==
    \A u \in UoWIds : Entered(u) =>
        /\ NDone(u, "commit") + NDone(u, "rollback") <= 1
        /\ NCalls(u, "commit") <= 1 /\ NCalls(u, "rollback") <= 1
        /\ NCalls(u, "commit") = 1 /\ NCalls(u, "rollback") = 1
              => Calls(u)[1] = [op |-> "commit", res |-> "fail"]
        /\ Done(u) =>
              /\ Finalizing(u) # {}
              /\ NDone(u, "commit") + NDone(u, "rollback") = 1
                    <=> Calls(u)[LastFinalizing(u)].res = "ok"

\* An exit whose commit failed and whose rollback after it took effect: two
\* calls, one effect.
Wit_C1 ==
    \E u \in UoWIds :
        /\ Done(u)
        /\ NCalls(u, "commit") = 1
        /\ NDone(u, "commit") = 0
        /\ NDone(u, "rollback") = 1

\* C2: on every exit path close is called exactly once on the session, as the
\* last call and after the commit-or-rollback step; it is never skipped.
Thm_C2_CloseOnceLast ==
    \A u \in UoWIds : Entered(u) =>
        /\ \A i \in DOMAIN Calls(u) :
              Calls(u)[i].op = "close" => i = Len(Calls(u)) /\ i > 1 /\ Done(u)
        /\ Calls(u) # <<>> => Calls(u)[1].op \in {"commit", "rollback"}
        /\ Done(u) => Calls(u)[Len(Calls(u))].op = "close"
        /\ uows[u].pc \in {"active", "commit", "rollback"} => Calls(u) = <<>>

\* An exit whose rollback failed and whose close was still called.
Wit_C2 ==
    \E u \in UoWIds :
        /\ Done(u)
        /\ Len(Calls(u)) = 2
        /\ Calls(u)[1] = [op |-> "rollback", res |-> "fail"]
        /\ Calls(u)[2].op = "close"

Thm_C5_CloseFailureSwallowed ==
    \A u \in UoWIds :
        Done(u) /\ Calls(u)[Len(Calls(u))] = [op |-> "close", res |-> "fail"] =>
            /\ uows[u].raised # "CloseError"
            /\ uows[u].raised = uows[u].pending
            /\ NDone(u, "commit") = 1 => Result(u) = "ok"
            /\ uows[u].excIn # "none" /\ NDone(u, "rollback") = 1
                  => Result(u) = uows[u].excIn
            /\ uows[u].excIn = "none" /\ NDone(u, "rollback") = 1
                  => Result(u) = "CommitError"

Wit_C5 ==
    \E u \in UoWIds :
        /\ Done(u)
        /\ Calls(u) = <<[op |-> "commit", res |-> "ok"], [op |-> "close", res |-> "fail"]>>
        /\ Result(u) = "ok"

\* C6: with the pool created and a fresh unit of work entered, a body without
\* error and a commit that succeeds make exit commit the session, call no
\* rollback, close it and raise nothing (the close not being cancelled).
Thm_C6_CommitAndClose ==
    \A u \in UoWIds : Done(u) /\ uows[u].excIn = "none" =>
        /\ sessions[uows[u].sess].pool # 0
        /\ Calls(u)[1].op = "commit"
        /\ Calls(u)[1].res = "ok" =>
              /\ Len(Calls(u)) = 2
              /\ NCalls(u, "rollback") = 0
              /\ Calls(u)[2].op = "close"
              /\ Calls(u)[2].res # "cancel"
                    => uows[u].raised = "none" /\ Result(u) = "ok"

Wit_C6 ==
    \E u \in UoWIds :
        /\ Done(u)
        /\ uows[u].excIn = "none"
        /\ sessions[uows[u].sess].pool \in okPools
        /\ Calls(u) = <<[op |-> "commit", res |-> "ok"], [op |-> "close", res |-> "ok"]>>

\* C7 as stated: after a create() whose liveness check failed the adapter holds
\* no pool handle, and a create() that finds an unchecked handle does not
\* return without checking.
Claim_C7_NoHandleAfterFailedCheck ==
    /\ lastCreate.raised # "none" => lastCreate.after = 0
    /\ sinceDispose.creates > 0 /\ lastCreate.raised = "none" => engine \in okPools

\* C8 as stated: get_session() returns a session only when a create() completed
\* successfully since construction or the last dispose(): every session handed
\* out is bound to an engine whose liveness check succeeded.
Claim_C8_SessionOnlyAfterSuccessfulCreate ==
    \A s \in DOMAIN sessions : sessions[s].pool \in okPools

\* C9 as stated: the lifespan reaches its yield (the service accepts requests)
\* only after a create() whose liveness check succeeded.
Claim_C9_ServingOnlyAfterCheck ==
    lifespan = "serving" => engine \in okPools

\* C10: between two dispose() calls at most one engine is built, whatever the
\* number of create() calls, and a create() issued while a handle exists builds
\* nothing, runs no liveness check and leaves the handle on the same engine.
Thm_C10_CreateIdempotent ==
    /\ lastCreate.before # 0 =>
          /\ ~lastCreate.constructed
          /\ ~lastCreate.checked
          /\ lastCreate.after = lastCreate.before
          /\ lastCreate.raised = "none"
    /\ sinceDispose.creates >= 1 => sinceDispose.built = 1 /\ engine # 0
    /\ sinceDispose.creates = 0 => sinceDispose.built = 0

\* A second create() call issued while the handle exists.
Wit_C10 ==
    /\ sinceDispose.creates = 2
    /\ lastCreate.before # 0
    /\ engine = lastCreate.before

\* C11: two units of work that hold sessions hold distinct ones, and a step of
\* one (commit, rollback, close, whatever its outcome) changes neither the other
\* instance nor the other's session.
Thm_C11_IndependentSessions ==
    /\ [](\A u, v \in UoWIds :
             u # v /\ Entered(u) /\ Entered(v) => uows[u].sess # uows[v].sess)
    /\ [][\A u, v \in UoWIds :
             u # v /\ uows'[v] # uows[v] =>
                 /\ uows'[u] = uows[u]
                 /\ Entered(u) => sessions'[uows[u].sess] = sessions[uows[u].sess]]_vars

\* Both instances are inside exit at once on the same pool: one has rolled
\* back with a failure, the other is about to commit.
Wit_C11 ==
    \E u, v \in UoWIds :
        /\ u # v
        /\ uows[u].pc = "close"
        /\ Calls(u) = <<[op |-> "rollback", res |-> "fail"]>>
        /\ uows[v].pc = "commit"
        /\ sessions[uows[u].sess].pool = sessions[uows[v].sess].pool

Thm_C13_DisposeClearsOrNoop ==
    [][lastDispose'.calls # lastDispose.calls =>
          /\ lastDispose'.before = engine
          /\ lastDispose'.raised = "none"
          /\ engine' = 0
          /\ engine # 0 => gonePools' = gonePools \cup {engine}
          /\ engine = 0 => /\ gonePools' = gonePools
                           /\ UNCHANGED <<nPools, okPools, lastCreate, sessions>>]_vars

\* dispose() was called without a handle, on an adapter that never saw a
\* create().
Wit_C13 ==
    /\ lastDispose.calls >= 1
    /\ lastDispose.before = 0
    /\ nPools = 0
    /\ engine = 0

\* C14: the first create() after a dispose() builds a new engine and runs the
\* liveness check on it; when it succeeds the handle is on a checked engine
\* that was never disposed, and every session get_session() then hands out is
\* bound to the engine in the handle, never to a disposed one.
Thm_C14_DisposeCreateRoundTrip ==
    /\ [](engine # 0 => engine \notin gonePools)
    /\ [][sinceDispose.creates = 0 /\ sinceDispose'.creates = 1 =>
             /\ lastCreate'.constructed
             /\ lastCreate'.checked
             /\ engine' = nPools' /\ nPools' = nPools + 1
             /\ engine' \notin gonePools'
             /\ lastCreate'.raised = "none" => engine' \in okPools']_vars
    /\ [][Len(sessions') > Len(sessions) =>
             /\ Len(sessions') = Len(sessions) + 1
             /\ engine # 0
             /\ sessions'[Len(sessions')].pool = engine
             /\ engine \notin gonePools]_vars

\* After a dispose of the first engine a create() succeeded and a session was
\* handed out on the second engine.
Wit_C14 ==
    /\ gonePools # {}
    /\ lastDispose.calls >= 1
    /\ engine \in okPools
    /\ lastCreate.before = 0 /\ lastCreate.after = engine
    /\ \E i \in DOMAIN sessions : sessions[i].pool = engine

\* C15 as stated: whenever the lifespan ends, after a completed startup or
\* during startup, dispose() is called exactly once and no handle remains.
Claim_C15_ShutdownDisposesOnce ==
    [][(lifespan \in {"startup", "serving"} /\ lifespan' \in {"stopped", "aborted"}) =>
          (lastDispose'.calls = lastDispose.calls + 1 /\ engine' = 0)]_vars

\* C16: a startup that was begun ends (it completes, unless the lifespan is
\* cancelled during the first connection check) however often the database was
\* unreachable before, and a completed startup leaves a handle with which
\* get_session() returns a session instead of raising.
Thm_C16_StartupCompletesUsable ==
    /\ [](lifespan = "serving" => engine # 0 /\ get_session.raised = "none")
    /\ (lifespan = "startup") ~> (lifespan \in {"serving", "aborted"})

\* Startup completed after an attempt that found the database unreachable.
Wit_C16 ==
    /\ lifespan = "serving"
    /\ sinceDispose.creates = 2
    /\ engine # 0
    /\ Len(get_session.new) = 1

InsideScope == {"active", "commit", "rollback", "rollback_after_commit", "close"}

\* C17 as stated: in every state an instance holds a session handle exactly
\* when it is between a successful enter and the end of its exit.
Claim_C17_HandleIffActive ==
    \A u \in UoWIds : Entered(u) <=> uows[u].pc \in InsideScope

\* C18 as stated: exit on an instance without an active session does nothing
\* and raises nothing.
Claim_C18_ExitWithoutSessionIsNoop ==
    \A u \in UoWIds : uows[u].pc = "exited_bare" => uows[u].raised = "none"

\* C19 as stated: when the rollback made by exit fails, the caller still
\* observes the error determined before it: the upstream error E on the error
\* path, the commit failure after a failed commit.
Claim_C19_RollbackFailureKeepsError ==
    \A u \in UoWIds :
        /\ Done(u)
        /\ \E i \in DOMAIN Calls(u) : Calls(u)[i] = [op |-> "rollback", res |-> "fail"]
        /\ \A i \in DOMAIN Calls(u) : Calls(u)[i].res # "cancel"
        => Result(u) = IF uows[u].excIn # "none" THEN uows[u].excIn ELSE "CommitError"

\* C20: enter on an adapter without a handle raises the adapter's error as it
\* is and leaves the instance without a session; enter on an adapter with a
\* handle constructs exactly one session, bound to that engine, and makes the
\* instance active.
Thm_C20_EnterAcquiresOrPropagates ==
    /\ [](\A u \in UoWIds : uows[u].pc = "enter_failed" =>
             uows[u].raised = "RuntimeError" /\ ~Entered(u))
    /\ [][\A u \in UoWIds :
             uows[u].pc = "new" /\ uows'[u].pc \notin {"new", "exited_bare"} =>
             IF engine = 0
             THEN /\ uows'[u].pc = "enter_failed"
                  /\ uows'[u].raised = "RuntimeError"
                  /\ uows'[u].sess = 0
                  /\ sessions' = sessions
             ELSE /\ uows'[u].pc = "active"
                  /\ uows'[u].raised = "none"
                  /\ sessions' = Append(sessions, [pool |-> engine, calls |-> <<>>])
                  /\ uows'[u].sess = Len(sessions')]_vars

\* One enter failed before the pool existed, another acquired a session.
Wit_C20 ==
    \E u, v \in UoWIds :
        /\ uows[u].pc = "enter_failed"
        /\ uows[u].raised = "RuntimeError"
        /\ uows[v].pc = "active"
        /\ sessions[uows[v].sess].pool # 0

\* C21: every uow_partial() call made by get_uow returns a new instance, so
\* two requests never hold the same instance nor the same session; the
\* generator enters its instance at most once and exits it at most once; a
\* request whose enter succeeded and whose handler has ended (returned, raised
\* or was cancelled) has made exactly one exit call, handed the handler's
\* outcome; a request whose enter did not succeed makes no exit call.
Thm_C21_FreshInstancePerRequest ==
    /\ \A r \in RequestIds :
         LET q == requests[r] IN
         /\ q.enters <= 1 /\ q.exits <= q.enters
         /\ q.uow # 0 => q.uow \in DOMAIN made
         /\ (q.enters = 1 /\ Entered(q.uow) /\ q.pc # "yielded") =>
               (q.exits = 1 /\ q.pc = "exiting" /\ uows[q.uow].excIn = q.handler)
         /\ q.pc = "ended" => (q.exits = 0 /\ (q.uow = 0 \/ ~Entered(q.uow)))
    /\ \A r1, r2 \in RequestIds :
         (r1 # r2 /\ requests[r1].uow # 0 /\ requests[r2].uow # 0) =>
            /\ requests[r1].uow # requests[r2].uow
            /\ (Entered(requests[r1].uow) /\ Entered(requests[r2].uow)) =>
                  uows[requests[r1].uow].sess # uows[requests[r2].uow].sess

\* Two requests are over, one handler raised and one was cancelled.
Wit_C21 ==
    \E r1, r2 \in RequestIds :
        /\ requests[r1].handler = "ValueError" /\ requests[r1].exits = 1
        /\ requests[r2].handler = "CancelledError" /\ requests[r2].exits = 1
        /\ Done(requests[r1].uow) /\ Done(requests[r2].uow)
        /\ requests[r1].uow # requests[r2].uow

\* C22: at most one adapter is ever constructed, and exactly one once
\* Bootstrap()() was called; a call after the first returns the stored
\* instance and constructs nothing; every UoW made by the factory holds that
\* adapter; bootstrapped() raises while no Bootstrap()() call was made.
Thm_C22_OneAdapter ==
    /\ [](/\ nAdapters <= 1
          /\ lastBoot.calls >= 1 =>
                /\ nAdapters = 1
                /\ Bootstrap_bootstrapped # None
                /\ lastBoot.returned = Bootstrap_bootstrapped
                /\ Bootstrap_bootstrapped.sql_model_adapter = Bootstrap_bootstrapped.uow_partial)
    /\ [](\A i \in DOMAIN made :
             made[i] # 0 /\ made[i] = Bootstrap_bootstrapped.sql_model_adapter)
    /\ [](lastBoot.calls = 0 => bootstrapped.raised = "RuntimeError")
    /\ [][(lastBoot.calls >= 1 /\ lastBoot'.calls # lastBoot.calls) =>
             (/\ ~lastBoot'.constructed
              /\ nAdapters' = nAdapters
              /\ lastBoot'.returned = lastBoot.returned
              /\ Bootstrap_bootstrapped' = Bootstrap_bootstrapped)]_vars

\* A request came before Bootstrap()() and got the error; after two
\* Bootstrap()() calls another request got its UoW from the factory.
Wit_C22 ==
    /\ lastBoot.calls = 2
    /\ ~lastBoot.constructed
    /\ nAdapters = 1
    /\ \E r \in RequestIds : requests[r].raised = "RuntimeError" /\ requests[r].uow = 0
    /\ Len(made) >= 1

====
